---- MODULE Spec2Model ----
(***************************************************************************)
(* Multiplicative Nim analysis (src/multiplicative_nim.py).                *)
(*                                                                         *)
(* The module's functions are modelled as operators computed the way the   *)
(* Python computes them (lists are sequences, tuples are sequences of      *)
(* integers).  Two specifications use them:                                *)
(*   Spec     the command-line run, main(), one action per statement;      *)
(*   LibSpec  a direct call of one function of the module on an arbitrary  *)
(*            list of positions of the data model (non-decreasing tuples   *)
(*            over 1..max_value, multiples of the modulus included).       *)
(***************************************************************************)
EXTENDS Integers, Sequences, FiniteSets

VARIABLES
    pc,                         \* where the run stands
    count, max_value, prime,    \* the integer arguments
    output_given,               \* main: whether args.output is a non-empty string
    positions,                  \* main: generate_positions' result; LibSpec: the list argument
    losing_positions,           \* main: local of that name
    non_convertible,            \* main: local of that name (line 279)
    non_convertible_positions,  \* main: local of that name (line 305)
    reduced_non_convertible,    \* main: local of that name
    counts,                     \* main: the four counts of lines 309-312
    call,                       \* LibSpec: the function called
    ret                         \* LibSpec: what the call returned or raised

vars == <<pc, count, max_value, prime, output_given, positions, losing_positions,
          non_convertible, non_convertible_positions, reduced_non_convertible,
          counts, call, ret>>

----------------------------------------------------------------------------
(* Bounds of the model *)

MaxCount == 3
MaxValue == 6
MaxPrime == 7
MaxLibCount == 2
MaxLibValue == 3
MaxLibPrime == 7
MaxInputLen == 2

----------------------------------------------------------------------------
(* Results of a call: a value, or the exception raised *)

Ok(v) == [kind |-> "ok", value |-> v]

Raise(e) == [kind |-> e, value |-> <<>>]

(* The names bound in the module's global scope when a function runs: the   *)
(* imports of lines 7-11 and the module's own functions.                    *)
ModuleGlobals ==
    {"csv", "argparse", "sys", "np", "List", "Tuple", "Optional",
     "count_positions", "generate_positions", "filter_by_prime",
     "find_non_convertible", "find_reduced_non_convertible",
     "export_to_csv", "main"}

----------------------------------------------------------------------------
(* Arithmetic helpers *)

Min(a, b) == IF a < b THEN a ELSE b

RECURSIVE Prod(_)
(* np.prod of a tuple of integers *)
Prod(t) == IF t = <<>> THEN 1 ELSE Head(t) * Prod(Tail(t))

RECURSIVE Sum(_)
(* the builtin sum of a tuple *)
Sum(t) == IF t = <<>> THEN 0 ELSE Head(t) + Sum(Tail(t))

(* any(x % prime == 0 for x in position) *)
AnyMultiple(position, p) == \E k \in 1..Len(position) : position[k] % p = 0

RECURSIVE Insert(_, _)
(* x put into the sorted sequence s, before the first larger element *)
Insert(x, s) ==
    IF s = <<>> THEN <<x>>
    ELSE IF x <= Head(s) THEN <<x>> \o s
    ELSE <<Head(s)>> \o Insert(x, Tail(s))

RECURSIVE sorted(_)
(* the builtin sorted() of a list of integers *)
sorted(s) == IF s = <<>> THEN <<>> ELSE Insert(Head(s), sorted(Tail(s)))

RECURSIVE InsertBySum(_, _)
(* t put into s, sorted by sum, before the first element whose sum is not smaller: *)
(* list.sort is stable, so equal sums keep their order                            *)
InsertBySum(t, s) ==
    IF s = <<>> THEN <<t>>
    ELSE IF Sum(t) <= Sum(Head(s)) THEN <<t>> \o s
    ELSE <<Head(s)>> \o InsertBySum(t, Tail(s))

RECURSIVE SortBySum(_)
(* list.sort(key=sum) *)
SortBySum(s) == IF s = <<>> THEN <<>> ELSE InsertBySum(Head(s), SortBySum(Tail(s)))

RECURSIVE Binomial(_, _)
(* C(n, k), by Pascal's rule *)
Binomial(n, k) ==
    IF k < 0 \/ k > n THEN 0
    ELSE IF k = 0 \/ k = n THEN 1
    ELSE Binomial(n - 1, k - 1) + Binomial(n - 1, k)

----------------------------------------------------------------------------
(* count_positions, lines 13-32 *)

(* The return statement evaluates the name comb, which no import binds. *)
count_positions(n, m) ==
    IF n <= 0 \/ m <= 0 THEN Raise("ValueError")
    ELSE IF "comb" \in ModuleGlobals THEN Ok(Binomial(n + m - 1, m - 1))
    ELSE Raise("NameError")

----------------------------------------------------------------------------
(* generate_positions, lines 34-73 *)

valid_numbers_unfiltered(mv, p) == [i \in 1..mv |-> i]

(* line 57: [i for i in range(1, max_value + 1) if i % prime != 0] *)
valid_numbers(mv, p) == SelectSeq([i \in 1..mv |-> i], LAMBDA i : i % p # 0)

KeepTuple_Strict(t, i) == t[1] > i

(* line 70: if t[0] >= i *)
KeepTuple(t, i) == t[1] >= i

RECURSIVE generate_positions(_, _, _)
generate_positions(c, mv, p) ==
    IF c <= 0 \/ mv <= 0 \/ p <= 0 THEN Raise("ValueError")
    ELSE LET vn == valid_numbers(mv, p) IN
         IF c = 1 THEN Ok([k \in 1..Len(vn) |-> <<vn[k]>>])
         ELSE LET \* line 67; the call is repeated for every i, with the same result
                  smaller_tuples == generate_positions(c - 1, mv, p).value
                  \* lines 69-71 for one i
                  Extended(i) ==
                      LET kept == SelectSeq(smaller_tuples, LAMBDA t : KeepTuple(t, i))
                      IN  [k \in 1..Len(kept) |-> <<i>> \o kept[k]]
                  \* line 64: for i in valid_numbers, appending to result
                  RECURSIVE Loop(_)
                  Loop(k) == IF k > Len(vn) THEN <<>>
                             ELSE Extended(vn[k]) \o Loop(k + 1)
              IN  Ok(Loop(1))

----------------------------------------------------------------------------
(* filter_by_prime, lines 75-92 *)

IsLosing_BySum(position, p) == Sum(position) % p = 1 /\ ~AnyMultiple(position, p)

(* line 92: the condition of the list comprehension *)
IsLosing(position, p) == Prod(position) % p = 1 /\ ~AnyMultiple(position, p)

filter_by_prime(ps, p) ==
    IF p <= 0 THEN Raise("ValueError")
    ELSE Ok(SelectSeq(ps, LAMBDA position : IsLosing(position, p)))

----------------------------------------------------------------------------
(* find_non_convertible, lines 94-145 *)

ReductionRange_Short(e, p) == 1..(Min(e, p) - 2)

ReductionRange_FromTwo(e, p) == 2..(Min(e, p) - 1)

(* line 124: range(1, min(position[i], prime)) *)
ReductionRange(e, p) == 1..(Min(e, p) - 1)

(* lines 125-135: one candidate of the inner loop *)
CandidateLoses(position, i, reduction, p, mv) ==
    LET reduced == [position EXCEPT ![i] = @ - reduction]
    IN  /\ ~(reduced[i] % p = 0 \/ reduced[i] > mv)
        /\ Prod(sorted(reduced)) % p = 1

(* lines 121-139: the two loops, left at the first candidate that loses *)
can_convert(position, p, mv) ==
    \E i \in 1..Len(position) :
        \E reduction \in ReductionRange(position[i], p) :
            CandidateLoses(position, i, reduction, p, mv)

IsNonConvertible_NoSkip(position, p, mv) == ~can_convert(position, p, mv)

(* lines 117-118 and 142-143: whether the position is appended *)
IsNonConvertible(position, p, mv) ==
    Prod(position) % p # 1 /\ ~can_convert(position, p, mv)

find_non_convertible(ps, p, mv) ==
    IF p <= 0 \/ mv <= 0 THEN Raise("ValueError")
    ELSE Ok(SelectSeq(ps, LAMBDA position : IsNonConvertible(position, p, mv)))

----------------------------------------------------------------------------
(* find_reduced_non_convertible, lines 147-194 *)

target_product_Up(position, p) ==
    LET original_product == Prod(position)
        m == original_product % p
    IN  IF m = 1 THEN original_product ELSE original_product + ((p + 1 - m) % p)

(* lines 178-182 *)
target_product(position, p) ==
    LET original_product == Prod(position)
        m == original_product % p
    IN  original_product - m + 1

HasTargetMatch_Residue(position, losing, p) ==
    \E k \in 1..Len(losing) : Prod(losing[k]) % p = target_product(position, p) % p

(* lines 185-189: the scan of losing_positions *)
HasTargetMatch(position, losing, p) ==
    \E k \in 1..Len(losing) : Prod(losing[k]) = target_product(position, p)

(* all_positions is a parameter the body never reads: lines 171-174 generate *)
(* the positions and the losing positions again                              *)
find_reduced_non_convertible(nc, all_positions, p, mv, c) ==
    IF p <= 0 \/ mv <= 0 \/ c <= 0 THEN Raise("ValueError")
    ELSE LET valid_positions == generate_positions(c, mv, p).value
             losing == filter_by_prime(valid_positions, p).value
         IN  Ok(SelectSeq(nc, LAMBDA position : ~HasTargetMatch(position, losing, p)))

----------------------------------------------------------------------------
(* main, lines 222-363: one action per statement that changes the state.    *)
(* The print statements and the contents of the files written are left to   *)
(* the reporting and export layers; whether a write succeeds is an input.   *)

NoCounts == [losing_count |-> 0, non_convertible_count |-> 0,
             reduced_non_convertible_count |-> 0, convertible_count |-> 0]

Init ==
    /\ pc = "start"
    /\ count \in 0..MaxCount
    /\ max_value \in 0..MaxValue
    /\ prime \in 0..MaxPrime
    /\ output_given \in BOOLEAN
    /\ positions = <<>>
    /\ losing_positions = <<>>
    /\ non_convertible = <<>>
    /\ non_convertible_positions = <<>>
    /\ reduced_non_convertible = <<>>
    /\ counts = NoCounts
    /\ call = "main"
    /\ ret = Ok(<<>>)

(* lines 262-263: parser.error leaves the process *)
Validate ==
    /\ pc = "start"
    /\ call = "main"
    /\ pc' = IF count <= 0 \/ max_value <= 0 \/ prime <= 0 THEN "usage_error"
             ELSE "validated"
    /\ UNCHANGED <<count, max_value, prime, output_given, positions, losing_positions,
                   non_convertible, non_convertible_positions,
                   reduced_non_convertible, counts, call, ret>>

(* lines 266-272 *)
Generate ==
    /\ pc = "validated"
    /\ LET r == generate_positions(count, max_value, prime)
       IN  IF r.kind = "ok"
           THEN /\ positions' = r.value
                /\ pc' = "generated"
           ELSE /\ positions' = positions
                /\ pc' = "exit1"
    /\ UNCHANGED <<count, max_value, prime, output_given, losing_positions,
                   non_convertible, non_convertible_positions,
                   reduced_non_convertible, counts, call, ret>>

(* line 275 *)
FilterLosing ==
    /\ pc = "generated"
    /\ losing_positions' = filter_by_prime(positions, prime).value
    /\ pc' = "filtered"
    /\ UNCHANGED <<count, max_value, prime, output_given, positions,
                   non_convertible, non_convertible_positions,
                   reduced_non_convertible, counts, call, ret>>

(* line 279 *)
FindNonConvertible ==
    /\ pc = "filtered"
    /\ non_convertible' = find_non_convertible(positions, prime, max_value).value
    /\ pc' = "nc_found"
    /\ UNCHANGED <<count, max_value, prime, output_given, positions, losing_positions,
                   non_convertible_positions, reduced_non_convertible, counts,
                   call, ret>>

(* lines 283-285 *)
FindReduced ==
    /\ pc = "nc_found"
    /\ reduced_non_convertible' =
           find_reduced_non_convertible(non_convertible, positions, prime,
                                        max_value, count).value
    /\ pc' = "rnc_found"
    /\ UNCHANGED <<count, max_value, prime, output_given, positions, losing_positions,
                   non_convertible, non_convertible_positions, counts, call, ret>>

(* lines 289-302.  export_to_csv raises ValueError for an empty list (line   *)
(* 207), which main does not catch; a failed write is a RuntimeError, which  *)
(* main answers with exit status 1.                                          *)
Export ==
    /\ pc = "rnc_found"
    /\ \E write_ok \in BOOLEAN :
           pc' = IF ~output_given THEN "exported"
                 ELSE IF positions = <<>> THEN "uncaught_ValueError"
                 ELSE IF write_ok THEN "exported"
                 ELSE "exit1"
    /\ UNCHANGED <<count, max_value, prime, output_given, positions, losing_positions,
                   non_convertible, non_convertible_positions,
                   reduced_non_convertible, counts, call, ret>>

(* lines 303-306: args.prime is positive here, so the branch is taken *)
Recompute ==
    /\ pc = "exported"
    /\ IF prime # 0
       THEN LET nc == find_non_convertible(positions, prime, max_value).value
            IN  /\ losing_positions' = filter_by_prime(positions, prime).value
                /\ non_convertible_positions' = nc
                /\ reduced_non_convertible' =
                       find_reduced_non_convertible(nc, positions, prime,
                                                    max_value, count).value
       ELSE UNCHANGED <<losing_positions, non_convertible_positions,
                        reduced_non_convertible>>
    /\ pc' = "recomputed"
    /\ UNCHANGED <<count, max_value, prime, output_given, positions,
                   non_convertible, counts, call, ret>>

(* line 312 *)
convertible_count(total, losing, nc, rnc) == total - nc - rnc

(* lines 309-312 *)
CalculateCounts ==
    /\ pc = "recomputed"
    /\ counts' =
           [losing_count |-> Len(losing_positions),
            non_convertible_count |-> Len(non_convertible_positions),
            reduced_non_convertible_count |-> Len(reduced_non_convertible),
            convertible_count |->
                convertible_count(Len(positions), Len(losing_positions),
                                  Len(non_convertible_positions),
                                  Len(reduced_non_convertible))]
    /\ pc' = "counted"
    /\ UNCHANGED <<count, max_value, prime, output_given, positions, losing_positions,
                   non_convertible, non_convertible_positions,
                   reduced_non_convertible, call, ret>>

(* lines 323-324 *)
SortForReport ==
    /\ pc = "counted"
    /\ losing_positions' = SortBySum(losing_positions)
    /\ non_convertible_positions' = SortBySum(non_convertible_positions)
    /\ pc' = "sorted"
    /\ UNCHANGED <<count, max_value, prime, output_given, positions,
                   non_convertible, reduced_non_convertible, counts, call, ret>>

(* lines 352-363: the three exports, each skipped for an empty list; a       *)
(* RuntimeError here is not caught                                           *)
FinalExport ==
    /\ pc = "sorted"
    /\ \E write_ok \in BOOLEAN :
           pc' = IF /\ losing_positions = <<>>
                    /\ non_convertible_positions = <<>>
                    /\ reduced_non_convertible = <<>>
                 THEN "done"
                 ELSE IF write_ok THEN "done" ELSE "uncaught_RuntimeError"
    /\ UNCHANGED <<count, max_value, prime, output_given, positions, losing_positions,
                   non_convertible, non_convertible_positions,
                   reduced_non_convertible, counts, call, ret>>

Next ==
    \/ Validate
    \/ Generate
    \/ FilterLosing
    \/ FindNonConvertible
    \/ FindReduced
    \/ Export
    \/ Recompute
    \/ CalculateCounts
    \/ SortForReport
    \/ FinalExport

Spec == Init /\ [][Next]_vars

----------------------------------------------------------------------------
(* A direct call of one function of the module.  The list argument is any   *)
(* list of at most MaxInputLen positions of the data model: tuples of count *)
(* integers of 1..max_value in non-decreasing order, multiples of the       *)
(* modulus included, in any order and with repeats.                         *)

NonDecreasingTuples(c, mv) ==
    IF c <= 0 THEN {}
    ELSE {t \in [1..c -> 1..mv] : \A k \in 1..(c - 1) : t[k] <= t[k + 1]}

InputLists(c, mv) ==
    UNION {[1..n -> NonDecreasingTuples(c, mv)] : n \in 0..MaxInputLen}

LibInit ==
    /\ pc = "idle"
    /\ call = "none"
    /\ count \in 0..MaxLibCount
    /\ max_value \in 0..MaxLibValue
    /\ prime \in 0..MaxLibPrime
    /\ positions \in InputLists(count, max_value)
    /\ output_given = FALSE
    /\ losing_positions = <<>>
    /\ non_convertible = <<>>
    /\ non_convertible_positions = <<>>
    /\ reduced_non_convertible = <<>>
    /\ counts = NoCounts
    /\ ret = Ok(<<>>)

Return(f, r) ==
    /\ call' = f
    /\ ret' = r
    /\ pc' = "returned"
    /\ UNCHANGED <<count, max_value, prime, output_given, positions, losing_positions,
                   non_convertible, non_convertible_positions,
                   reduced_non_convertible, counts>>

CallCountPositions ==
    /\ pc = "idle"
    /\ Return("count_positions", count_positions(count, max_value))

CallGeneratePositions ==
    /\ pc = "idle"
    /\ Return("generate_positions", generate_positions(count, max_value, prime))

CallFilterByPrime ==
    /\ pc = "idle"
    /\ Return("filter_by_prime", filter_by_prime(positions, prime))

CallFindNonConvertible ==
    /\ pc = "idle"
    /\ Return("find_non_convertible", find_non_convertible(positions, prime, max_value))

CallFindReduced ==
    /\ pc = "idle"
    /\ Return("find_reduced_non_convertible",
              find_reduced_non_convertible(positions, positions, prime, max_value, count))

LibNext ==
    \/ CallCountPositions
    \/ CallGeneratePositions
    \/ CallFilterByPrime
    \/ CallFindNonConvertible
    \/ CallFindReduced

LibSpec == LibInit /\ [][LibNext]_vars

----------------------------------------------------------------------------
(* Vocabulary of the properties, stated without the operators above *)

SetOf(s) == {s[k] : k \in 1..Len(s)}

NoDuplicates(s) == \A i, j \in 1..Len(s) : i # j => s[i] # s[j]

IsPrimeNumber(n) == n >= 2 /\ \A d \in 2..(n - 1) : n % d # 0

(* The PositionSet of the data model: non-decreasing tuples over the alphabet *)
(* without the multiples of the modulus                                       *)
PositionSet(c, mv, M) ==
    {t \in NonDecreasingTuples(c, mv) : \A k \in 1..c : t[k] % M # 0}

(* Losing: product congruent to 1 and no element a multiple of the modulus *)
Losing(t, M) == Prod(t) % M = 1 /\ \A k \in 1..Len(t) : t[k] % M # 0

(* Some element, lowered by r of the set R(element), makes the product 1 mod M *)
ReducibleWithin(t, M, R(_)) ==
    \E j \in 1..Len(t) : \E r \in R(t[j]) :
        /\ (t[j] - r) % M # 0
        /\ Prod([t EXCEPT ![j] = t[j] - r]) % M = 1

BoundedAmounts(e) == 1..(Min(e, prime) - 1)

AllAmounts(e) == 1..(e - 1)

(* The least x >= P with x mod M = 1, and the greatest x <= P with x mod M = 1 *)
LeastAtOrAbove(P, M) ==
    CHOOSE x \in P..(P + M) : x % M = 1 /\ \A y \in P..(x - 1) : y % M # 1

GreatestAtOrBelow(P, M) ==
    CHOOSE x \in (P - M)..P : x % M = 1 /\ \A y \in (x + 1)..P : y % M # 1

(* main holds the result of generate_positions *)
Generated == pc \notin {"start", "usage_error", "validated"}

(* main holds the results of lines 304-306 *)
Recomputed == pc \in {"recomputed", "counted", "sorted", "done", "uncaught_RuntimeError"}

ReturnedFrom(f) == pc = "returned" /\ call = f

----------------------------------------------------------------------------
(* C1: for count, max_value, prime >= 1, generate_positions returns every   *)
(* non-decreasing sequence of length count over [1, max_value] without      *)
(* multiples of prime, each exactly once, and nothing else.                 *)
C1_GenerateExact ==
    Generated =>
        /\ NoDuplicates(positions)
        /\ SetOf(positions) = PositionSet(count, max_value, prime)

C1_Witness ==
    /\ pc = "generated"
    /\ count = 2 /\ max_value = 4 /\ prime = 3
    /\ positions = << <<1, 1>>, <<1, 2>>, <<1, 4>>, <<2, 2>>, <<2, 4>>, <<4, 4>> >>

(* C2: find_non_convertible returns, in input order, exactly the positions  *)
(* whose product is not 1 mod prime and that no lowering of one element by  *)
(* r, 1 <= r <= min(element, prime) - 1, to a non-multiple of prime turns   *)
(* into a position of product 1 mod prime.                                  *)
C2_NonConvertibleExact ==
    (ReturnedFrom("find_non_convertible") /\ prime >= 1 /\ max_value >= 1) =>
        ret = Ok(SelectSeq(positions,
                           LAMBDA t : /\ Prod(t) % prime # 1
                                      /\ ~ReducibleWithin(t, prime, BoundedAmounts)))

C2_Witness ==
    /\ ReturnedFrom("find_non_convertible")
    /\ prime = 5 /\ max_value = 3
    /\ positions = << <<1, 2>>, <<2, 2>> >>
    /\ ret = Ok(<< <<2, 2>> >>)

(* C3: find_reduced_non_convertible returns, in input order, exactly the    *)
(* positions of its first argument whose target T = P - (P mod prime) + 1   *)
(* is the product of no Losing position of the PositionSet of (count,       *)
(* max_value, prime).                                                       *)
C3_ReducedExact ==
    (ReturnedFrom("find_reduced_non_convertible")
        /\ count >= 1 /\ max_value >= 1 /\ prime >= 1) =>
        ret = Ok(SelectSeq(positions,
                           LAMBDA t : ~\E q \in PositionSet(count, max_value, prime) :
                                          /\ Losing(q, prime)
                                          /\ Prod(q) = Prod(t) - (Prod(t) % prime) + 1))

C3_Witness ==
    /\ ReturnedFrom("find_reduced_non_convertible")
    /\ count = 2 /\ max_value = 3 /\ prime = 7
    /\ positions = << <<2, 2>>, <<3, 3>> >>
    /\ ret = Ok(<< <<3, 3>> >>)

(* C4: filter_by_prime returns, in input order, exactly the positions whose *)
(* product mod prime is 1 and none of whose elements is a multiple of       *)
(* prime, and leaves its argument as it was.                                *)
C4_FilterExact ==
    (ReturnedFrom("filter_by_prime") /\ prime >= 1) =>
        ret = Ok(SelectSeq(positions, LAMBDA t : Losing(t, prime)))

C4_Witness ==
    /\ ReturnedFrom("filter_by_prime")
    /\ prime = 3
    /\ positions = << <<1, 3>>, <<2, 2>> >>
    /\ ret = Ok(<< <<2, 2>> >>)

(* C5: in a run of main, the reduced non-convertible positions are among    *)
(* the non-convertible ones, and those are among the generated positions    *)
(* that are not Losing.                                                     *)
C5_Subsets ==
    /\ pc = "rnc_found" =>
           /\ SetOf(reduced_non_convertible) \subseteq SetOf(non_convertible)
           /\ SetOf(non_convertible) \subseteq
                  SetOf(positions) \ SetOf(losing_positions)
    /\ Recomputed =>
           /\ SetOf(reduced_non_convertible) \subseteq SetOf(non_convertible_positions)
           /\ SetOf(non_convertible_positions) \subseteq
                  SetOf(positions) \ SetOf(losing_positions)

C5_Witness ==
    /\ pc = "recomputed"
    /\ count = 2 /\ max_value = 3 /\ prime = 7
    /\ losing_positions = << <<1, 1>> >>
    /\ non_convertible_positions = << <<2, 2>>, <<2, 3>>, <<3, 3>> >>
    /\ reduced_non_convertible = << <<3, 3>> >>

(* C6: the four counts of main add up to the number of generated positions, *)
(* the four classes are pairwise disjoint, and convertible_count is the     *)
(* number of positions that are not Losing but reducible to a Losing one.   *)
C6_CountsPartition ==
    pc = "counted" =>
        /\ counts.losing_count + counts.non_convertible_count
             + counts.reduced_non_convertible_count + counts.convertible_count
           = Len(positions)
        /\ SetOf(reduced_non_convertible) \cap SetOf(non_convertible_positions) = {}
        /\ counts.convertible_count =
               Cardinality({t \in SetOf(positions) :
                               /\ ~Losing(t, prime)
                               /\ ReducibleWithin(t, prime, BoundedAmounts)})

(* C7 as stated: the target of a non-convertible position of product P is   *)
(* the smallest integer >= P that is congruent to 1 modulo the modulus.     *)
C7_TargetIsLeastAbove ==
    pc = "nc_found" =>
        \A k \in 1..Len(non_convertible) :
            target_product(non_convertible[k], prime)
                = LeastAtOrAbove(Prod(non_convertible[k]), prime)

(* C7 as amended: the target is T = P - (P mod M) + 1.  When P mod M is not *)
(* 0 it is the largest integer <= P congruent to 1 modulo M, and smaller    *)
(* than P; when P mod M is 0 it is P + 1.                                   *)
C7_TargetIsGreatestBelow ==
    pc = "nc_found" =>
        \A k \in 1..Len(non_convertible) :
            LET P == Prod(non_convertible[k])
                T == target_product(non_convertible[k], prime)
            IN  IF P % prime # 0
                THEN T = GreatestAtOrBelow(P, prime) /\ T < P
                ELSE T = P + 1

C7_Witness ==
    /\ pc = "nc_found"
    /\ prime = 7
    /\ \E k \in 1..Len(non_convertible) :
           /\ non_convertible[k] = <<3, 3>>
           /\ target_product(non_convertible[k], prime) = 8

(* C8: for count, max_value >= 1, count_positions returns                   *)
(* C(count + max_value - 1, max_value - 1) and does not fail.               *)
C8_CountIsStarsAndBars ==
    (ReturnedFrom("count_positions") /\ count >= 1 /\ max_value >= 1) =>
        ret = Ok(Binomial(count + max_value - 1, max_value - 1))

(* C9: on a generated PositionSet, the search of find_non_convertible,      *)
(* which lowers an element by at most prime - 1, finds the same             *)
(* non-convertible positions as the search over every amount from 1 to      *)
(* element - 1.                                                             *)
C9_BoundLosesNothing ==
    pc = "nc_found" =>
        non_convertible =
            SelectSeq(positions,
                      LAMBDA t : /\ Prod(t) % prime # 1
                                 /\ ~ReducibleWithin(t, prime, AllAmounts))

C9_Witness ==
    /\ pc = "nc_found"
    /\ count = 2 /\ max_value = 6 /\ prime = 4
    /\ non_convertible = << <<2, 2>>, <<2, 3>>, <<2, 6>>, <<6, 6>> >>

(* C10 as stated: for every modulus, prime or not, no non-convertible       *)
(* position of a generated PositionSet has a product that is 0 modulo the   *)
(* modulus.                                                                 *)
C10_ResidueNeverZero ==
    pc = "nc_found" =>
        \A k \in 1..Len(non_convertible) : Prod(non_convertible[k]) % prime # 0

(* C10 as amended: for a prime modulus, no non-convertible position of a    *)
(* generated PositionSet has a product that is 0 modulo the modulus.        *)
C10_ResidueNeverZeroForPrimes ==
    (pc = "nc_found" /\ IsPrimeNumber(prime)) =>
        \A k \in 1..Len(non_convertible) : Prod(non_convertible[k]) % prime # 0

C10_Witness ==
    /\ pc = "nc_found"
    /\ count = 2 /\ max_value = 6 /\ prime = 5
    /\ non_convertible = << <<2, 2>> >>

====
